---- MODULE Spec2Model ----
(***************************************************************************)
(* parler/cache.py: the translation cache of django-parler.                *)
(*                                                                         *)
(* Python values are modelled as follows.                                  *)
(*   - a dict is a function from a finite set of strings (its keys);       *)
(*   - a scalar stored in a dict is the string of its repr: "1", "None",   *)
(*     "True", "'Hello'", "''";                                            *)
(*   - an object id (instance.pk, translation.master_id) is a tagged       *)
(*     record: no value, a Python int, or a Python str of decimal digits;  *)
(*   - None, where a dict could also stand, is the record None below.      *)
(***************************************************************************)
EXTENDS Integers, Sequences, FiniteSets, TLC

VARIABLES
    world,               \* which deployment is modelled (objects and languages)
    enabled,             \* appsettings.PARLER_ENABLE_CACHING
    cache,               \* django.core.cache.cache: key -> dict, present keys only
    translations_cache,  \* instance._translations_cache, per in-memory instance
    last,                \* the last call: operation, arguments, result, store calls
    kin,                 \* two argument triples given to get_translation_cache_key
    kout,                \* the two keys built from kin, <<>> before they are built
    pending,             \* per process: the store calls of its call still to make
    executed             \* the store call made last by a process, <<>> before any

vars == <<world, enabled, cache, translations_cache, last, kin, kout, pending, executed>>

-----------------------------------------------------------------------------
(* Bounds *)

\* translation rows have ids 1..MaxId
MaxId == 2
\* owner ids given to the key builder are the ints 0..MaxPk and digit strings
MaxPk == 2

-----------------------------------------------------------------------------
(* Python values *)

None == [None |-> "None"]

MISSING == "<IsMissing>"

IdNone == [t |-> "none"]
IdInt(n) == [t |-> "int", n |-> n]
IdStr(s) == [t |-> "str", s |-> s]

\* bool(x) of an object id: None, 0 and "" are false
IdTruthy(x) ==
    CASE x.t = "none" -> FALSE
      [] x.t = "int" -> x.n # 0
      [] x.t = "str" -> x.s # <<>>

\* bool(x) of a scalar held as its repr
Truthy(v) == v \notin {"None", "False", "0", "''"}

\* `not values` of a dict-or-None
Falsy(values) == values = None \/ DOMAIN values = {}

DictGet(d, k, default) == IF k \in DOMAIN d THEN d[k] ELSE default

DictSet(d, k, v) == [x \in DOMAIN d \cup {k} |-> IF x = k THEN v ELSE d[x]]

DictDel(d, k) == [x \in DOMAIN d \ {k} |-> d[x]]

Digit(d) ==
    CASE d = 0 -> "0" [] d = 1 -> "1" [] d = 2 -> "2" [] d = 3 -> "3"
      [] d = 4 -> "4" [] d = 5 -> "5" [] d = 6 -> "6" [] d = 7 -> "7"
      [] d = 8 -> "8" [] d = 9 -> "9"

DigitValue(ch) ==
    CASE ch = "0" -> 0 [] ch = "1" -> 1 [] ch = "2" -> 2 [] ch = "3" -> 3
      [] ch = "4" -> 4 [] ch = "5" -> 5 [] ch = "6" -> 6 [] ch = "7" -> 7
      [] ch = "8" -> 8 [] ch = "9" -> 9

RECURSIVE NatToStr(_)
NatToStr(n) == IF n < 10 THEN Digit(n) ELSE NatToStr(n \div 10) \o Digit(n % 10)

\* '{0}'.format(n) of an integer
FormatInt(n) == IF n < 0 THEN "-" \o NatToStr(0 - n) ELSE NatToStr(n)

RECURSIVE ParseDigits(_)
ParseDigits(s) ==
    IF s = <<>> THEN 0
    ELSE ParseDigits(SubSeq(s, 1, Len(s) - 1)) * 10 + DigitValue(s[Len(s)])

\* long(x) raises TypeError for None
LongRaises(x) == x.t = "none"

\* long(x): an int is itself, a str of digits is parsed
long(x) == IF x.t = "int" THEN x.n ELSE ParseDigits(x.s)

-----------------------------------------------------------------------------
(* Key builder *)

\* mutant: the app label is left out of the key
KeyWithoutAppLabel(translated_model, master_id, language_code) ==
    "parler." \o translated_model.name
        \o "." \o FormatInt(long(master_id)) \o "." \o language_code

get_translation_cache_key(translated_model, master_id, language_code) ==
    "parler." \o translated_model.app_label \o "." \o translated_model.name
        \o "." \o FormatInt(long(master_id)) \o "." \o language_code

-----------------------------------------------------------------------------
(* The external cache store *)

Get(key) == [op |-> "get", key |-> key]
Set(key, values) == [op |-> "set", key |-> key, values |-> values]
Delete(key) == [op |-> "delete", key |-> key]

\* cache.get(key): the stored dict, or None
StoreGet(store, key) == IF key \in DOMAIN store THEN store[key] ELSE None

\* the store after one call
StoreCall(store, call) ==
    CASE call.op = "get" -> store
      [] call.op = "set" -> DictSet(store, call.key, call.values)
      [] call.op = "delete" -> DictDel(store, call.key)

\* the store after a sequence of calls, in order
RECURSIVE StoreCalls(_, _)
StoreCalls(store, calls) ==
    IF calls = <<>> THEN store
    ELSE StoreCalls(StoreCall(store, Head(calls)), Tail(calls))

-----------------------------------------------------------------------------
(* The collaborators: configured languages, models, instances, translations *)

\* the shared models' translation models: (_meta.app_label, __name__)
ArticleTranslation == [app_label |-> "blog", name |-> "ArticleTranslation"]
ShopArticleTranslation == [app_label |-> "shop", name |-> "ArticleTranslation"]

Worlds == {"single", "siblings", "unsaved", "shared"}

\* the configured language codes
Languages(w) ==
    CASE w = "single" -> {"en", "nl", "fr"}
      [] w = "siblings" -> {"en"}
      [] w = "unsaved" -> {"en", "nl"}
      [] w = "shared" -> {"en", "nl"}

\* get_language_settings(language_code)['fallback']
Fallback(language_code) ==
    CASE language_code = "en" -> "en"
      [] language_code = "nl" -> "en"
      [] language_code = "fr" -> "nl"

Saved(name, model, pk) ==
    [name |-> name, translations_model |-> model, pk |-> pk, adding |-> FALSE]

Adding(name, model, pk) ==
    [name |-> name, translations_model |-> model, pk |-> pk, adding |-> TRUE]

\* The in-memory instances of a world.
\*   "single": one saved object, in three languages.
\*   "siblings": three saved objects, two of one model and one of another model
\*     with the pk of the first.
\*   "unsaved": a saved object, a new object without a pk, and an object given
\*     the pk of the first by hand and not saved yet.
\*   "shared": one saved object, in a store that another writer (an older
\*     release, another application) writes to as well.
Instances(w) ==
    CASE w = "single" -> { Saved("a", ArticleTranslation, IdInt(1)) }
      [] w = "siblings" -> { Saved("a", ArticleTranslation, IdInt(1)),
                             Saved("b", ArticleTranslation, IdInt(2)),
                             Saved("c", ShopArticleTranslation, IdInt(1)) }
      [] w = "unsaved" -> { Saved("a", ArticleTranslation, IdInt(1)),
                            Adding("u", ArticleTranslation, IdNone),
                            Adding("w", ArticleTranslation, IdInt(1)) }
      [] w = "shared" -> { Saved("a", ArticleTranslation, IdInt(1)) }

InstanceNames(w) == {i.name : i \in Instances(w)}

\* translation.get_translated_fields()
TranslatedFields == <<"title">>

\* the title held by the translation row with this id
Title(id) ==
    CASE id = 1 -> "'Hello'"
      [] id = 2 -> "''"
      [] OTHER -> "'Hallo'"

\* The translation objects of a world: a row of one of the world's objects, or
\* a translation whose master is not assigned yet.
Translations(w) ==
    { [cls |-> i.translations_model, id |-> id,
       master_id |-> i.pk,
       language_code |-> l, title |-> Title(id)] :
        i \in Instances(w), id \in 1..MaxId, l \in Languages(w) }

\* the field names get_cached_translated_field is asked for
FieldNames == {"title", "slug"}

-----------------------------------------------------------------------------
(* Read path *)

\* What _get_cached_values gives: the returned values, the instance's
\* _translations_cache afterwards, and the store calls made, in order.
Outcome(values, tcache, calls) == [values |-> values, tcache |-> tcache, calls |-> calls]

\* mutant: the caching flag is not read
NoCacheIgnoringFlag(flag, instance) == ~IdTruthy(instance.pk) \/ instance.adding

\* line 89: caching is off, or the object has no identity
NoCacheFor(flag, instance) == ~flag \/ ~IdTruthy(instance.pk) \/ instance.adding

\* line 98: values.get('__FALLBACK__', False)
HasFallbackMarker(values) == Truthy(DictGet(values, "__FALLBACK__", "False"))

\* mutant: use_fallback is ignored
NeverGoesToFallback(language_code, use_fallback) == FALSE

\* mutant: the fallback is read even when it is the language itself
GoesToFallbackEvenToItself(language_code, use_fallback) == use_fallback

\* lines 103-105: the fallback language is read instead
GoesToFallback(language_code, use_fallback) ==
    use_fallback /\ Fallback(language_code) # language_code

\* mutant: language_code is not attached
WithMasterOnly(values, instance, language_code) ==
    DictSet(values, "master", instance.name)

\* lines 109-110: the computed fields of a positive result
WithComputedFields(values, instance, language_code) ==
    DictSet(DictSet(values, "master", instance.name), "language_code", language_code)

\* mutant: the lookup stores the negative marker under the key it read
LookupStoringMarker(key) == <<Get(key), Set(key, [__FALLBACK__ |-> "True"])>>

\* line 93: the store calls of the lookup
Lookup(key) == <<Get(key)>>

RECURSIVE get_cached_values(_, _, _, _, _, _)

\* mutant: a miss with use_fallback reads the fallback language
OnMissReadingFallback(store, flag, tcache, instance, language_code, use_fallback) ==
    LET key == get_translation_cache_key(instance.translations_model, instance.pk,
                                         language_code)
    IN  IF GoesToFallback(language_code, use_fallback)
        THEN LET r == get_cached_values(store, flag, tcache, instance,
                                        Fallback(language_code), FALSE)
             IN  Outcome(r.values, r.tcache, Lookup(key) \o r.calls)
        ELSE Outcome(None, tcache, Lookup(key))

\* mutant: a miss is recorded as MISSING in the instance
OnMissMarkingMissing(store, flag, tcache, instance, language_code, use_fallback) ==
    Outcome(None, DictSet(tcache, language_code, MISSING),
            Lookup(get_translation_cache_key(instance.translations_model,
                                             instance.pk, language_code)))

\* lines 94-95: nothing, or an empty dict, is stored under the key
OnMiss(store, flag, tcache, instance, language_code, use_fallback) ==
    Outcome(None, tcache,
            Lookup(get_translation_cache_key(instance.translations_model,
                                             instance.pk, language_code)))

\* mutant: the instance is not told
MarkNothing(tcache, language_code) == tcache

\* line 100: instance._translations_cache[language_code] = MISSING
MarkMissing(tcache, language_code) == DictSet(tcache, language_code, MISSING)

\* mutant: the read of the fallback language falls back as well
FallbackOfFallbackAsGiven(use_fallback) == use_fallback

\* line 106: the use_fallback argument of the read of the fallback language
FallbackOfFallback(use_fallback) == FALSE

get_cached_values(store, flag, tcache, instance, language_code, use_fallback) ==
    IF NoCacheFor(flag, instance)
    THEN Outcome(None, tcache, <<>>)
    ELSE
      LET key == get_translation_cache_key(instance.translations_model, instance.pk,
                                           language_code)
          values == StoreGet(store, key)
      IN  IF Falsy(values)
          THEN OnMiss(store, flag, tcache, instance, language_code, use_fallback)
          ELSE IF HasFallbackMarker(values)
          THEN LET marked == MarkMissing(tcache, language_code)
               IN  IF GoesToFallback(language_code, use_fallback)
                   THEN LET r == get_cached_values(store, flag, marked, instance,
                                                   Fallback(language_code),
                                                   FallbackOfFallback(use_fallback))
                        IN  Outcome(r.values, r.tcache, Lookup(key) \o r.calls)
                   ELSE Outcome(None, marked, Lookup(key))
          ELSE Outcome(WithComputedFields(values, instance, language_code),
                       tcache, Lookup(key))

\* line 68: instance._translations_model(**values); a new model object is in
\* the adding state
Construct(model, values) == [cls |-> model, fields |-> values, adding |-> TRUE]

\* mutant: the translation is left in the adding state
TranslationLeftAdding(instance, values) ==
    Construct(instance.translations_model, values)

\* lines 68-70: the translation object built from the values, with
\* _state.adding = False
TranslationFrom(instance, values) ==
    [Construct(instance.translations_model, values) EXCEPT !.adding = FALSE]

\* mutant: values[field_name]
FieldLookupRaising(values, field_name) ==
    IF field_name \in DOMAIN values
    THEN [result |-> values[field_name], raised |-> ""]
    ELSE [result |-> "None", raised |-> "KeyError"]

\* line 82: values.get(field_name, None)
FieldLookup(values, field_name) ==
    [result |-> DictGet(values, field_name, "None"), raised |-> ""]

Call(op, args, result, calls, raised) ==
    [op |-> op, args |-> args, result |-> result, calls |-> calls, raised |-> raised]

ReadArgs(instance, language_code, field_name, use_fallback) ==
    [instance |-> instance.name, language_code |-> language_code,
     field_name |-> field_name, use_fallback |-> use_fallback]

get_cached_translation(instance, language_code, use_fallback) ==
    LET r == get_cached_values(cache, enabled, translations_cache[instance.name],
                               instance, language_code, use_fallback)
    IN  /\ cache' = StoreCalls(cache, r.calls)
        /\ translations_cache' = [translations_cache EXCEPT ![instance.name] = r.tcache]
        /\ last' = Call("get_cached_translation",
                        ReadArgs(instance, language_code, "", use_fallback),
                        IF Falsy(r.values) THEN None
                        ELSE TranslationFrom(instance, r.values),
                        r.calls, "")
        /\ UNCHANGED <<world, enabled, kin, kout, pending, executed>>

get_cached_translated_field(instance, language_code, field_name, use_fallback) ==
    LET r == get_cached_values(cache, enabled, translations_cache[instance.name],
                               instance, language_code, use_fallback)
        f == IF Falsy(r.values) THEN [result |-> "None", raised |-> ""]
             ELSE FieldLookup(r.values, field_name)
    IN  /\ cache' = StoreCalls(cache, r.calls)
        /\ translations_cache' = [translations_cache EXCEPT ![instance.name] = r.tcache]
        /\ last' = Call("get_cached_translated_field",
                        ReadArgs(instance, language_code, field_name, use_fallback),
                        f.result, r.calls, f.raised)
        /\ UNCHANGED <<world, enabled, kin, kout, pending, executed>>

-----------------------------------------------------------------------------
(* Write path *)

\* What a write or an invalidation does: its store calls, in order, and the
\* exception it raises ("" for none).
Effect(calls, raised) == [calls |-> calls, raised |-> raised]

\* lines 123-126: {'id': translation.id} and every translated field
RECURSIVE FieldValues(_, _, _)
FieldValues(translation, fields, values) ==
    IF fields = <<>> THEN values
    ELSE FieldValues(translation, Tail(fields),
                     DictSet(values, Head(fields), translation[Head(fields)]))

\* mutant: only the id is cached
CachedIdOnly(translation) == [id |-> FormatInt(translation.id)]

CachedValuesOf(translation) ==
    FieldValues(translation, TranslatedFields, [id |-> FormatInt(translation.id)])

\* the key of a translation object (lines 128 and 155)
TranslationKey(translation) ==
    get_translation_cache_key(translation.cls, translation.master_id,
                              translation.language_code)

\* mutant: the record is stored field by field
CacheTranslationFieldwise(flag, translation) ==
    IF ~flag THEN Effect(<<>>, "")
    ELSE IF LongRaises(translation.master_id) THEN Effect(<<>>, "TypeError")
    ELSE Effect(<<Set(TranslationKey(translation), CachedIdOnly(translation)),
                  Set(TranslationKey(translation), CachedValuesOf(translation))>>, "")

\* lines 116-129: the store call of _cache_translation
CacheTranslationEffect(flag, translation) ==
    IF ~flag THEN Effect(<<>>, "")
    ELSE IF LongRaises(translation.master_id) THEN Effect(<<>>, "TypeError")
    ELSE Effect(<<Set(TranslationKey(translation), CachedValuesOf(translation))>>, "")

FallbackMarker == [__FALLBACK__ |-> "True"]

NeedsFallbackEffect(flag, instance, language_code) ==
    IF NoCacheFor(flag, instance) THEN Effect(<<>>, "")
    ELSE Effect(<<Set(get_translation_cache_key(instance.translations_model,
                                                instance.pk, language_code),
                      FallbackMarker)>>, "")

cache_translation(translation) ==
    LET e == CacheTranslationEffect(enabled, translation)
    IN  /\ cache' = StoreCalls(cache, e.calls)
        /\ last' = Call("_cache_translation", [translation |-> translation],
                        None, e.calls, e.raised)
        /\ UNCHANGED <<world, enabled, translations_cache, kin, kout, pending, executed>>

cache_translation_needs_fallback(instance, language_code) ==
    LET e == NeedsFallbackEffect(enabled, instance, language_code)
    IN  /\ cache' = StoreCalls(cache, e.calls)
        /\ last' = Call("_cache_translation_needs_fallback",
                        [instance |-> instance.name, language_code |-> language_code],
                        None, e.calls, e.raised)
        /\ UNCHANGED <<world, enabled, translations_cache, kin, kout, pending, executed>>

-----------------------------------------------------------------------------
(* Invalidation path *)

\* a list holding the members of a set, as a query returns them
RECURSIVE ListOf(_)
ListOf(S) ==
    IF S = {} THEN <<>>
    ELSE LET x == CHOOSE y \in S : TRUE IN <<x>> \o ListOf(S \ {x})

\* get_object_cache_keys(instance), the query
\* instance.get_available_languages() returning `available`
get_object_cache_keys(instance, available) ==
    IF ~IdTruthy(instance.pk) \/ instance.adding THEN <<>>
    ELSE [n \in 1..Len(available) |->
             get_translation_cache_key(instance.translations_model, instance.pk,
                                       available[n])]

\* lines 144-146 read no caching flag: `flag` is not used
DeleteTranslationsEffect(flag, instance, available) ==
    LET keys == get_object_cache_keys(instance, available)
    IN  Effect([n \in 1..Len(keys) |-> Delete(keys[n])], "")

\* mutant: nothing is deleted
DeleteNothingEffect(flag, translation) ==
    IF flag /\ LongRaises(translation.master_id) THEN Effect(<<>>, "TypeError")
    ELSE Effect(<<>>, "")

\* mutant: every language of the translation's master is deleted
DeleteEveryLanguageEffect(flag, translation) ==
    IF ~flag THEN Effect(<<>>, "")
    ELSE IF LongRaises(translation.master_id) THEN Effect(<<>>, "TypeError")
    ELSE LET langs == ListOf({"en", "nl", "fr"})
         IN  Effect([n \in 1..Len(langs) |->
                        Delete(get_translation_cache_key(translation.cls,
                                   translation.master_id, langs[n]))], "")

DeleteTranslationEffect(flag, translation) ==
    IF ~flag THEN Effect(<<>>, "")
    ELSE IF LongRaises(translation.master_id) THEN Effect(<<>>, "TypeError")
    ELSE Effect(<<Delete(TranslationKey(translation))>>, "")

delete_cached_translations(shared_model, available) ==
    LET e == DeleteTranslationsEffect(enabled, shared_model, ListOf(available))
    IN  /\ cache' = StoreCalls(cache, e.calls)
        /\ last' = Call("_delete_cached_translations",
                        [instance |-> shared_model.name, available |-> available],
                        None, e.calls, e.raised)
        /\ UNCHANGED <<world, enabled, translations_cache, kin, kout, pending, executed>>

delete_cached_translation(translation) ==
    LET e == DeleteTranslationEffect(enabled, translation)
    IN  /\ cache' = StoreCalls(cache, e.calls)
        /\ last' = Call("_delete_cached_translation", [translation |-> translation],
                        None, e.calls, e.raised)
        /\ UNCHANGED <<world, enabled, translations_cache, kin, kout, pending, executed>>

-----------------------------------------------------------------------------
(* The environment *)

\* the PARLER_ENABLE_CACHING setting is changed
SetCaching(flag) ==
    /\ flag # enabled
    /\ enabled' = flag
    /\ last' = Call("settings", [flag |-> flag], None, <<>>, "")
    /\ UNCHANGED <<world, cache, translations_cache, kin, kout, pending, executed>>

\* the dicts another writer of the store leaves under a key: an empty dict,
\* and a record that carries __FALLBACK__ beside its fields
ForeignEntries ==
    { <<>>, [__FALLBACK__ |-> "True", id |-> "1", title |-> "'Hello'"] }

\* another writer of the store sets a key of one of the objects
ForeignSet(instance, language_code, values) ==
    /\ world = "shared"
    /\ ~NoCacheFor(TRUE, instance)
    /\ LET key == get_translation_cache_key(instance.translations_model, instance.pk,
                                            language_code)
       IN  /\ cache' = StoreCall(cache, Set(key, values))
           /\ last' = Call("foreign", [key |-> key], None, <<>>, "")
    /\ UNCHANGED <<world, enabled, translations_cache, kin, kout, pending, executed>>

\* the store drops an entry whose timeout has passed
Expire(key) ==
    /\ key \in DOMAIN cache
    /\ cache' = DictDel(cache, key)
    /\ last' = Call("expire", [key |-> key], None, <<>>, "")
    /\ UNCHANGED <<world, enabled, translations_cache, kin, kout, pending, executed>>

-----------------------------------------------------------------------------
(* The specification of the cache *)

\* the processes that share the store
Procs == {"p1", "p2"}

\* no process is inside a call
NoPending == [p \in Procs |-> <<>>]

\* no key is being built
NoArgs == [a |-> <<>>, b |-> <<>>]
NoKeys == [a |-> "", b |-> ""]

Init ==
    /\ world \in Worlds
    /\ enabled \in BOOLEAN
    /\ cache = <<>>
    /\ translations_cache = [n \in InstanceNames(world) |-> <<>>]
    /\ last = Call("init", <<>>, None, <<>>, "")
    /\ kin = NoArgs
    /\ kout = NoKeys
    /\ pending = NoPending
    /\ executed = <<>>

Read ==
    \E instance \in Instances(world), language_code \in Languages(world),
       use_fallback \in BOOLEAN :
        \/ get_cached_translation(instance, language_code, use_fallback)
        \/ \E field_name \in FieldNames :
              get_cached_translated_field(instance, language_code, field_name,
                                          use_fallback)

Write ==
    \/ \E translation \in Translations(world) : cache_translation(translation)
    \/ \E instance \in Instances(world), language_code \in Languages(world) :
          cache_translation_needs_fallback(instance, language_code)

Invalidate ==
    \/ \E instance \in Instances(world), available \in SUBSET Languages(world) :
          delete_cached_translations(instance, available)
    \/ \E translation \in Translations(world) : delete_cached_translation(translation)

Environment ==
    \/ \E flag \in BOOLEAN : SetCaching(flag)
    \/ \E key \in DOMAIN cache : Expire(key)
    \/ \E instance \in Instances(world), language_code \in Languages(world),
          values \in ForeignEntries :
          ForeignSet(instance, language_code, values)

Next == Read \/ Write \/ Invalidate \/ Environment

Spec == Init /\ [][Next]_vars

-----------------------------------------------------------------------------
(* The specification of the key builder alone *)

PageTranslation == [app_label |-> "blog", name |-> "PageTranslation"]

\* the owner ids a caller passes: ints, and the same numbers as strings
KeyIds ==
    {IdInt(n) : n \in 0..MaxPk} \cup {IdInt(12)}
        \cup {IdStr(<<"1">>), IdStr(<<"1", "2">>)}

KeyArgs ==
    [translated_model : {ArticleTranslation, ShopArticleTranslation, PageTranslation},
     master_id : KeyIds,
     language_code : {"en", "nl", "en-us"}]

KeyOf(args) ==
    get_translation_cache_key(args.translated_model, args.master_id, args.language_code)

InitKeys ==
    /\ world = "single"
    /\ enabled = TRUE
    /\ cache = <<>>
    /\ translations_cache = [n \in InstanceNames(world) |-> <<>>]
    /\ last = Call("init", <<>>, None, <<>>, "")
    /\ kin \in [a : KeyArgs, b : KeyArgs]
    /\ kout = NoKeys
    /\ pending = NoPending
    /\ executed = <<>>

BuildKeys ==
    /\ kout = NoKeys
    /\ kout' = [a |-> KeyOf(kin.a), b |-> KeyOf(kin.b)]
    /\ UNCHANGED <<world, enabled, cache, translations_cache, last, kin, pending, executed>>

NextKeys == BuildKeys

KeySpec == InitKeys /\ [][NextKeys]_vars

-----------------------------------------------------------------------------
(* Processes that write and delete at the same time. The module takes no lock:
   a call of a process runs up to its store calls, and the store makes each
   set and each delete of any process in one step (django.core.cache). *)

InitRace ==
    /\ world = "shared"
    /\ enabled = TRUE
    /\ cache = <<>>
    /\ translations_cache = [n \in InstanceNames(world) |-> <<>>]
    /\ last = Call("init", <<>>, None, <<>>, "")
    /\ kin = NoArgs
    /\ kout = NoKeys
    /\ pending = NoPending
    /\ executed = <<>>

\* process p enters a call: the call's store calls are yet to be made
Begin(p, effect) ==
    /\ pending[p] = <<>>
    /\ pending' = [pending EXCEPT ![p] = effect.calls]
    /\ UNCHANGED <<world, enabled, cache, translations_cache, last, kin, kout, executed>>

BeginCacheTranslation(p) ==
    \E translation \in Translations(world) :
        Begin(p, CacheTranslationEffect(enabled, translation))

BeginNeedsFallback(p) ==
    \E instance \in Instances(world), language_code \in Languages(world) :
        Begin(p, NeedsFallbackEffect(enabled, instance, language_code))

BeginDeleteTranslations(p) ==
    \E instance \in Instances(world), available \in SUBSET Languages(world) :
        Begin(p, DeleteTranslationsEffect(enabled, instance, ListOf(available)))

BeginDeleteTranslation(p) ==
    \E translation \in Translations(world) :
        Begin(p, DeleteTranslationEffect(enabled, translation))

\* lines 129, 141, 146, 156: the store makes the next call of process p
StoreStep(p) ==
    /\ pending[p] # <<>>
    /\ cache' = StoreCall(cache, Head(pending[p]))
    /\ executed' = <<Head(pending[p])>>
    /\ pending' = [pending EXCEPT ![p] = Tail(pending[p])]
    /\ UNCHANGED <<world, enabled, translations_cache, last, kin, kout>>

NextRace ==
    \E p \in Procs :
        \/ BeginCacheTranslation(p)
        \/ BeginNeedsFallback(p)
        \/ BeginDeleteTranslation(p)
        \/ BeginDeleteTranslations(p)
        \/ StoreStep(p)

RaceSpec == InitRace /\ [][NextRace]_vars

-----------------------------------------------------------------------------
(* Properties *)

ReadOps == {"get_cached_translation", "get_cached_translated_field"}
WriteOps == {"_cache_translation", "_cache_translation_needs_fallback"}
InvalidateOps == {"_delete_cached_translations", "_delete_cached_translation"}

InstanceNamed(name) == CHOOSE i \in Instances(world) : i.name = name

\* the object has an identity: a pk, and it is not being added
Identified(instance) == IdTruthy(instance.pk) /\ ~instance.adding

\* the key of an identified instance in a language
InstanceKey(instance, language_code) ==
    get_translation_cache_key(instance.translations_model, instance.pk, language_code)

\* a read call returned "no result"
NoResult(call) ==
    IF call.op = "get_cached_translated_field" THEN call.result = "None"
    ELSE call.result = None

\* what a read of the instance returns in the given store and memory
ReadValues(store, flag, tcaches, instance, language_code, use_fallback) ==
    get_cached_values(store, flag, tcaches[instance.name], instance, language_code,
                      use_fallback).values

\* C1: with the caching flag false, the write operations and the invalidation
\* operations make no call to the external store.
C1_DisabledMakesNoStoreCall ==
    (~enabled /\ last.op \in WriteOps \cup InvalidateOps) => last.calls = <<>>

\* C2: when _delete_cached_translations(obj) has completed with caching
\* enabled, a read of obj returns None for every language that had a cache
\* entry before the call, whatever the entry was and whether or not the
\* language is still among obj's available languages.
C2_InvalidationComplete ==
    [][ (enabled' /\ last'.op = "_delete_cached_translations") =>
          LET obj == InstanceNamed(last'.args.instance)
          IN  Identified(obj) =>
                \A l \in Languages(world), use_fallback \in BOOLEAN :
                    InstanceKey(obj, l) \in DOMAIN cache =>
                        ReadValues(cache', enabled', translations_cache', obj, l,
                                   use_fallback) = None ]_vars

\* the record a read returns for a translation written by _cache_translation
WrittenRecord(translation, instance) ==
    [f \in {"id", "title", "master", "language_code"} |->
        CASE f = "id" -> FormatInt(translation.id)
          [] f = "title" -> translation.title
          [] f = "master" -> instance.name
          [] f = "language_code" -> translation.language_code]

\* the translation belongs to the instance
MasterOf(translation, instance) ==
    /\ ~LongRaises(translation.master_id)
    /\ translation.cls = instance.translations_model
    /\ long(translation.master_id) = long(instance.pk)

\* C3: with caching enabled, right after _cache_translation(t) a read of t's
\* saved master object in t's language returns id and every translated field
\* with the written value, master = the object and language_code = the
\* language read.
C3_RoundTrip ==
    (enabled /\ last.op = "_cache_translation") =>
        LET t == last.args.translation
        IN  \A obj \in Instances(world), use_fallback \in BOOLEAN :
                (Identified(obj) /\ MasterOf(t, obj)) =>
                    ReadValues(cache, enabled, translations_cache, obj,
                               t.language_code, use_fallback)
                        = WrittenRecord(t, obj)

C3_Witness ==
    /\ enabled
    /\ last.op = "_cache_translation"
    /\ last.args.translation.title = "''"
    /\ \E obj \in Instances(world) :
          Identified(obj) /\ MasterOf(last.args.translation, obj)

\* C4: right after _cache_translation_needs_fallback(obj, L), a read of (obj, L)
\* without fallback returns None; a read with fallback returns what a read of
\* (obj, fallback(L)) without fallback returns when fallback(L) # L, and None
\* when fallback(L) = L.
C4_NegativeMarkerRead ==
    last.op = "_cache_translation_needs_fallback" =>
        LET obj == InstanceNamed(last.args.instance)
            l == last.args.language_code
            read(language_code, use_fallback) ==
                ReadValues(cache, enabled, translations_cache, obj, language_code,
                           use_fallback)
        IN  /\ read(l, FALSE) = None
            /\ Fallback(l) # l => read(l, TRUE) = read(Fallback(l), FALSE)
            /\ Fallback(l) = l => read(l, TRUE) = None

C4_Witness ==
    /\ last.op = "_cache_translation_needs_fallback"
    /\ last.calls # <<>>
    /\ Fallback(last.args.language_code) # last.args.language_code
    /\ ReadValues(cache, enabled, translations_cache,
                  InstanceNamed(last.args.instance), last.args.language_code, TRUE)
         # None

\* the last call was a fallback-enabled read of a language that falls back to
\* itself and whose cache entry is the negative marker
SelfFallbackRead ==
    /\ enabled
    /\ last.op \in ReadOps
    /\ last.args.use_fallback
    /\ Fallback(last.args.language_code) = last.args.language_code
    /\ Identified(InstanceNamed(last.args.instance))
    /\ StoreGet(cache, InstanceKey(InstanceNamed(last.args.instance),
                                   last.args.language_code)) = FallbackMarker

\* C5: a fallback-enabled read of a language whose fallback is itself and whose
\* entry is the negative marker returns None after one cache get, with no
\* second read.
C5_SelfFallbackTerminates ==
    SelfFallbackRead =>
        /\ NoResult(last)
        /\ last.calls = <<Get(InstanceKey(InstanceNamed(last.args.instance),
                                          last.args.language_code))>>

C5_Witness == SelfFallbackRead /\ last.op = "get_cached_translation"


KeysBuilt == kout # NoKeys

\* the two triples name the same model, the same owner number and the same
\* language
SameTarget(x, y) ==
    /\ x.translated_model = y.translated_model
    /\ long(x.master_id) = long(y.master_id)
    /\ x.language_code = y.language_code

\* C6 as stated: equal (model, owner id, language) triples give equal keys,
\* and triples that differ in a component give different keys.
C6_KeyInjective == KeysBuilt => (kin.a = kin.b <=> kout.a = kout.b)

\* C6: two (model, owner id, language) triples give the same key exactly when
\* they name the same model, owner ids of the same integer value, and the same
\* language; owner ids are compared after long(), so 12 and "12" share a key.
C6_KeyInjectiveOnOwnerNumber ==
    KeysBuilt => (SameTarget(kin.a, kin.b) <=> kout.a = kout.b)

C6_Witness ==
    /\ KeysBuilt
    /\ kin.a.translated_model = ArticleTranslation
    /\ kin.b.translated_model = ShopArticleTranslation
    /\ kin.a.master_id = IdInt(12)
    /\ kin.b.master_id = IdStr(<<"1", "2">>)
    /\ kin.a.language_code = kin.b.language_code
    /\ kout.a # kout.b

\* no call of the sequence changes the store
OnlyGets(calls) == \A n \in 1..Len(calls) : calls[n].op = "get"

\* C7: for an object without identity (no pk, or still being added) every
\* operation raises nothing and leaves the store alone: reads return None,
\* get_object_cache_keys returns no key, and the writes and deletes, those of
\* a translation whose master id is unassigned included, change nothing.
C7_NoIdentityIsNoOp ==
    /\ (/\ last.op \in ReadOps \cup {"_cache_translation_needs_fallback",
                                     "_delete_cached_translations"}
        /\ ~Identified(InstanceNamed(last.args.instance)))
          => /\ last.raised = ""
             /\ OnlyGets(last.calls)
             /\ last.op \in ReadOps => NoResult(last)
    /\ (/\ last.op \in {"_cache_translation", "_delete_cached_translation"}
        /\ last.args.translation.master_id = IdNone)
          => /\ last.raised = ""
             /\ OnlyGets(last.calls)
    /\ \A obj \in Instances(world) :
          ~Identified(obj) =>
              get_object_cache_keys(obj, ListOf(Languages(world))) = <<>>

\* C8: with the caching flag false, get_cached_translation and
\* get_cached_translated_field return None whatever the object, the language,
\* use_fallback and the store hold, make no cache get, and leave the
\* in-memory translation caches as they were.
C8_DisabledReadIsTransparent ==
    [][ (~enabled' /\ last'.op \in ReadOps) =>
          /\ NoResult(last')
          /\ last'.calls = <<>>
          /\ translations_cache' = translations_cache ]_vars

C8_Witness ==
    /\ ~enabled
    /\ last.op \in ReadOps
    /\ last.args.use_fallback
    /\ Identified(InstanceNamed(last.args.instance))
    /\ StoreGet(cache, InstanceKey(InstanceNamed(last.args.instance),
                                   last.args.language_code)) = FallbackMarker
    /\ translations_cache[last.args.instance] = <<>>

\* C9: get_cached_translation and get_cached_translated_field leave every
\* key of the store as it was, on a hit, on a miss and on a negative marker.
C9_ReadLeavesStore ==
    [][ last'.op \in ReadOps => cache' = cache ]_vars

C9_Witness ==
    /\ last.op \in ReadOps
    /\ Len(last.calls) = 2
    /\ ~NoResult(last)
    /\ \E l \in Languages(world) :
          Identified(InstanceNamed(last.args.instance))
          /\ InstanceKey(InstanceNamed(last.args.instance), l) \notin DOMAIN cache

\* C10: _delete_cached_translation(translation) removes the key of the
\* translation's model, master id and language and no other: every other
\* entry of the store is as it was, and no entry is added.
C10_DeleteOneKey ==
    [][ last'.op = "_delete_cached_translation" =>
          LET t == last'.args.translation
          IN  IF LongRaises(t.master_id) THEN cache' = cache
              ELSE /\ DOMAIN cache' \subseteq DOMAIN cache
                   /\ \A k \in DOMAIN cache :
                         k # TranslationKey(t) =>
                             k \in DOMAIN cache' /\ cache'[k] = cache[k]
                   /\ enabled => TranslationKey(t) \notin DOMAIN cache' ]_vars

C10_Witness ==
    /\ last.op = "_delete_cached_translation"
    /\ last.calls # <<>>
    /\ Cardinality(DOMAIN cache) >= 2


\* the instance and the language of the last call, a read
LastInstance == InstanceNamed(last.args.instance)
LastLanguage == last.args.language_code

\* the last call was a read that looked into the store
LookedUp == last.op \in ReadOps /\ enabled /\ Identified(LastInstance)

\* what the store holds for the instance in the language
Entry(instance, language_code) == StoreGet(cache, InstanceKey(instance, language_code))

\* a stored record that is data: not empty, not the negative marker
Positive(entry) == ~Falsy(entry) /\ entry # FallbackMarker

\* C11: get_cached_translated_field raises nothing; when the resolved record
\* lacks the field it returns None, and when the record has the field it
\* returns the cached value of the field.
C11_FieldAbsenceTolerated ==
    last.op = "get_cached_translated_field" =>
        LET values == ReadValues(cache, enabled, translations_cache, LastInstance,
                                 LastLanguage, last.args.use_fallback)
        IN  /\ last.raised = ""
            /\ ~Falsy(values) =>
                  last.result = IF last.args.field_name \in DOMAIN values
                                THEN values[last.args.field_name]
                                ELSE "None"

C11_Witness ==
    /\ last.op = "get_cached_translated_field"
    /\ LookedUp
    /\ last.args.field_name = "slug"
    /\ Positive(Entry(LastInstance, LastLanguage))
    /\ ~HasFallbackMarker(Entry(LastInstance, LastLanguage))

\* C12: every translation get_cached_translation returns is not in the
\* adding state, on a direct hit and on a hit through the fallback language.
C12_ReturnedTranslationIsSaved ==
    (last.op = "get_cached_translation" /\ last.result # None) =>
        last.result.adding = FALSE

C12_Witness ==
    /\ last.op = "get_cached_translation"
    /\ last.result # None
    /\ Len(last.calls) = 2

\* C13: a stored record is read as the negative marker only when it is
\* exactly {'__FALLBACK__': True}; any other non-empty record, one with
\* __FALLBACK__ beside other fields included, is returned as data, and nothing
\* is raised.
C13_OnlyExactMarkerIsNegative ==
    (LookedUp /\ last.op = "get_cached_translation"
        /\ Positive(Entry(LastInstance, LastLanguage))) =>
        /\ last.raised = ""
        /\ last.result # None
        /\ last.result.fields = WithComputedFields(Entry(LastInstance, LastLanguage),
                                                   LastInstance, LastLanguage)

\* C14: when a read finds the negative marker under the requested language,
\* that language is MISSING in the instance's _translations_cache when the
\* read returns, with and without use_fallback, whatever the fallback gives.
C14_MarkerReadMarksMissing ==
    (LookedUp /\ Entry(LastInstance, LastLanguage) = FallbackMarker) =>
        DictGet(translations_cache[last.args.instance], LastLanguage, "") = MISSING

C14_Witness ==
    /\ LookedUp
    /\ Entry(LastInstance, LastLanguage) = FallbackMarker
    /\ last.args.use_fallback
    /\ ~NoResult(last)

\* the last call was a fallback-enabled read that found the negative marker
\* under the requested language and under its fallback
TwoMarkersRead ==
    /\ LookedUp
    /\ last.args.use_fallback
    /\ Fallback(LastLanguage) # LastLanguage
    /\ Entry(LastInstance, LastLanguage) = FallbackMarker
    /\ Entry(LastInstance, Fallback(LastLanguage)) = FallbackMarker

\* C15: a read makes at most two cache gets; when the requested language and
\* its fallback both hold the negative marker it returns None after those two
\* gets and does not read the fallback's own fallback.
C15_OneFallbackHop ==
    last.op \in ReadOps =>
        /\ Len(last.calls) <= 2
        /\ TwoMarkersRead =>
              /\ NoResult(last)
              /\ last.calls = <<Get(InstanceKey(LastInstance, LastLanguage)),
                                Get(InstanceKey(LastInstance, Fallback(LastLanguage)))>>

C15_Witness ==
    /\ TwoMarkersRead
    /\ Fallback(Fallback(LastLanguage)) # Fallback(LastLanguage)
    /\ Positive(Entry(LastInstance, Fallback(Fallback(LastLanguage))))

\* C16: with caching enabled, a read without fallback right after a write or
\* a delete of a key shows that call alone, whatever the key held before: the
\* written record after _cache_translation, None after
\* _cache_translation_needs_fallback and after a delete.
C16_LastWriteWins ==
    enabled =>
        /\ last.op = "_cache_translation" =>
              \A obj \in Instances(world) :
                  (Identified(obj) /\ MasterOf(last.args.translation, obj)) =>
                      ReadValues(cache, enabled, translations_cache, obj,
                                 last.args.translation.language_code, FALSE)
                          = WrittenRecord(last.args.translation, obj)
        /\ (last.op = "_cache_translation_needs_fallback" /\ Identified(LastInstance)) =>
              /\ Entry(LastInstance, LastLanguage) = FallbackMarker
              /\ ReadValues(cache, enabled, translations_cache, LastInstance,
                            LastLanguage, FALSE) = None
        /\ last.op = "_delete_cached_translation" =>
              \A obj \in Instances(world) :
                  (Identified(obj) /\ MasterOf(last.args.translation, obj)) =>
                      /\ InstanceKey(obj, last.args.translation.language_code)
                             \notin DOMAIN cache
                      /\ ReadValues(cache, enabled, translations_cache, obj,
                                    last.args.translation.language_code, FALSE) = None
        /\ (last.op = "_delete_cached_translations" /\ Identified(LastInstance)) =>
              \A l \in last.args.available :
                  ReadValues(cache, enabled, translations_cache, LastInstance, l, FALSE)
                      = None

\* a record is written over a key that held the negative marker before
C16_Witness ==
    /\ enabled
    /\ last.op = "_cache_translation"
    /\ last.calls # <<>>
    /\ \E obj \in Instances(world) :
          /\ Identified(obj)
          /\ MasterOf(last.args.translation, obj)
          /\ DictGet(translations_cache[obj.name],
                     last.args.translation.language_code, "") = MISSING


\* the instance and the language of the call a step makes, a read
NextInstance == InstanceNamed(last'.args.instance)
NextLanguage == last'.args.language_code

\* C18: a read gets the fallback language's key only after it took the
\* requested language's record for the negative marker. A read with
\* use_fallback that finds nothing, or an empty record, under the requested
\* language returns None after that single get, also when the fallback
\* language has data, and leaves every _translations_cache as it was.
C18_MissSkipsFallback ==
    [][ (last'.op \in ReadOps /\ enabled' /\ Identified(NextInstance)) =>
            /\ Len(last'.calls) > 1 =>
                  HasFallbackMarker(Entry(NextInstance, NextLanguage))
            /\ (last'.args.use_fallback /\ Falsy(Entry(NextInstance, NextLanguage))) =>
                  /\ NoResult(last')
                  /\ last'.calls = <<Get(InstanceKey(NextInstance, NextLanguage))>>
                  /\ translations_cache' = translations_cache ]_vars

C18_Witness ==
    /\ LookedUp
    /\ last.args.use_fallback
    /\ Falsy(Entry(LastInstance, LastLanguage))
    /\ Fallback(LastLanguage) # LastLanguage
    /\ Positive(Entry(LastInstance, Fallback(LastLanguage)))
    /\ ~HasFallbackMarker(Entry(LastInstance, Fallback(LastLanguage)))

\* C19: the fields of a returned translation carry master, the instance the
\* read was made for, and language_code, the language under whose key the
\* data was found: the requested one after one get, its fallback after two.
C19_ComputedFields ==
    (last.op = "get_cached_translation" /\ last.result # None) =>
        LET fields == last.result.fields
            code == DictGet(fields, "language_code", "None")
        IN  /\ DictGet(fields, "master", "None") = last.args.instance
            /\ code = IF Len(last.calls) = 1 THEN LastLanguage
                      ELSE Fallback(LastLanguage)
            /\ code \in Languages(world)
            /\ last.calls[Len(last.calls)] = Get(InstanceKey(LastInstance, code))

C19_Witness ==
    /\ last.op = "get_cached_translation"
    /\ last.result # None
    /\ Len(last.calls) = 2
    /\ last.result.fields["language_code"] = Fallback(LastLanguage)
    /\ Fallback(LastLanguage) # LastLanguage

\* C20: an entry of a _translations_cache changes only in a read made for that
\* instance, only to MISSING, and only for a language whose stored record the
\* read took for the negative marker: the requested language, or its fallback
\* when the read went on to it. Writes and deletes never set or clear an
\* entry, so a mark stays when the stored record is replaced or deleted.
C20_OnlyMarkerReadsMark ==
    [][ \A n \in InstanceNames(world), l \in Languages(world) :
          DictGet(translations_cache[n], l, "") # DictGet(translations_cache'[n], l, "") =>
             /\ DictGet(translations_cache'[n], l, "") = MISSING
             /\ last'.op \in ReadOps
             /\ last'.args.instance = n
             /\ enabled
             /\ Identified(InstanceNamed(n))
             /\ HasFallbackMarker(Entry(InstanceNamed(n), l))
             /\ \/ l = NextLanguage
                \/ /\ l = Fallback(NextLanguage)
                   /\ last'.args.use_fallback
                   /\ HasFallbackMarker(Entry(InstanceNamed(n), NextLanguage)) ]_vars

\* the mark of a language outlives the delete of the language's stored record
C20_Witness ==
    /\ enabled
    /\ last.op = "_delete_cached_translation"
    /\ last.calls # <<>>
    /\ \E obj \in Instances(world) :
          /\ Identified(obj)
          /\ MasterOf(last.args.translation, obj)
          /\ DictGet(translations_cache[obj.name],
                     last.args.translation.language_code, "") = MISSING
          /\ InstanceKey(obj, last.args.translation.language_code) \notin DOMAIN cache


\* the values some call of the module passes to set under the key
SetValues(key) ==
    { CachedValuesOf(t) : t \in { x \in Translations(world) :
                                    ~LongRaises(x.master_id) /\ TranslationKey(x) = key } }
        \cup {FallbackMarker}

\* C17: however the store calls of processes that write and delete the same
\* key interleave, a key of the store is absent or holds the whole value of
\* one set call, never fields of two, and the store shows the store call that
\* was made last: its value after a set, no entry after a delete.
C17_RaceLeavesWholeValues ==
    /\ \A key \in DOMAIN cache : cache[key] \in SetValues(key)
    /\ executed # <<>> =>
          StoreGet(cache, executed[1].key)
              = IF executed[1].op = "set" THEN executed[1].values ELSE None

\* a set was made while another process is about to set other values under
\* the same key, over the value of a third call
C17_Witness ==
    /\ executed # <<>>
    /\ executed[1].op = "set"
    /\ \E p \in Procs :
          /\ pending[p] # <<>>
          /\ Head(pending[p]).key = executed[1].key
          /\ Head(pending[p]).op = "set"
          /\ Head(pending[p]).values # executed[1].values

====
